---- MODULE Spec2Model ----
(***************************************************************************)
(* The dial-list lease protocol of routes/dial.js over the DialList        *)
(* collection (models/DialList.js): number import, lease acquisition,      *)
(* lease release, outcome finalisation and call-log disposition, each an   *)
(* HTTP handler running against one shared document store.                 *)
(***************************************************************************)
EXTENDS Integers, FiniteSets, Sequences, TLC

\* ---------------------------------------------------------------- bounds
MaxTime == 1         \* largest value of the wall clock

\* ------------------------------------------------------ program constants
MAX_ATTEMPTS == 3
DefaultPriority == 1

\* ------------------------------------------------------------ value sets
Null == "null"
NoDate == 0 - 1

Users == {"A", "B", "X"}

\* The User collection: A is an admin of o1 who created agent B; X is the
\* owner of the other tenant.
UserDocs == [A |-> [role |-> "admin", organizationId |-> "o1", createdBy |-> "A"],
             B |-> [role |-> "agent", organizationId |-> "o1", createdBy |-> "A"],
             X |-> [role |-> "owner", organizationId |-> "o2", createdBy |-> "X"]]

OrgOf(u) == UserDocs[u].organizationId

RetryStatuses == {"pending", "failed", "no_answer", "busy"}

\* store     the DialList collection, a document's _id being its index
\* callLogs  the CallLog collection: the phone number of each log
\* uploads   the /upload-numbers requests in flight
\* now       the wall clock read by new Date() and Date.now
\* openCall  history: the records handed out by a lease that has been neither
\*           released nor finalized since
\* timesLeased  history: how often each counted record has been handed out
\* sent      history: the /update-number-status and /release-number-lock
\*           requests the dialer has sent, each with the hand-out it was
\*           sent under
\* resp      the answer to the latest request
VARIABLES store, callLogs, uploads, now, openCall, timesLeased, sent, resp

vars == <<store, callLogs, uploads, now, openCall, timesLeased, sent, resp>>

\* ------------------------------------------------------------ documents
NewDialList(number, org, by, to, t) ==
  [phoneNumber |-> number, organizationId |-> org, uploadedBy |-> by,
   assignedTo |-> to, dialingStatus |-> "pending", disposition |-> Null,
   notes |-> Null, comments |-> Null, attempts |-> 0, lastDialedAt |-> NoDate,
   completedAt |-> NoDate, currentlyDialingBy |-> Null,
   priority |-> DefaultPriority, createdAt |-> t]

IdleUpload == [pc |-> "idle", by |-> Null, to |-> Null, todo |-> <<>>,
               existing |-> FALSE, uploaded |-> 0, duplicates |-> 0, errors |-> 0]

\* Phone numbers that requests name, and the /upload-numbers requests that
\* can be in flight at once.
RequestPhones == {"p1"}
UploadSlots == {"u1"}

\* A CallLog document is known by the phone number it carries: callId "" is
\* a missing callId, "c0" the id of no document.
CallIds == RequestPhones \cup {"", "c0"}

NoResults == [uploaded |-> 0, duplicates |-> 0, errors |-> 0]

Response(op, by, id, code) ==
  [op |-> op, by |-> by, id |-> id, code |-> code, results |-> NoResults]

Init ==
  /\ store = <<>>
  /\ callLogs = {}
  /\ uploads = [k \in UploadSlots |-> IdleUpload]
  /\ now = 0
  /\ openCall = {}
  /\ timesLeased = <<>>
  /\ sent = {}
  /\ resp = Response("none", Null, 0, 0)

\* ------------------------------------------------------------ wall clock
Tick ==
  /\ now < MaxTime
  /\ now' = now + 1
  /\ UNCHANGED <<store, callLogs, uploads, openCall, timesLeased, sent, resp>>

\* ------------------------------------------------ POST /get-next-number
\* The handler first reads up to five available numbers for its log and then
\* issues one findOneAndUpdate, which selects, locks and counts in a single
\* document update; the answer depends on that update alone.
\* Variant: the filter without the organizationId condition.
EligibleAnyTenant(s, u) ==
  {i \in DOMAIN s :
     /\ s[i].assignedTo = u
     /\ s[i].dialingStatus \in RetryStatuses
     /\ s[i].currentlyDialingBy = Null
     /\ s[i].attempts < MAX_ATTEMPTS}

\* Variant: the attempt cap compared with <= instead of <.
EligibleCapInclusive(s, u) ==
  {i \in DOMAIN s :
     /\ s[i].assignedTo = u
     /\ s[i].organizationId = OrgOf(u)
     /\ s[i].dialingStatus \in RetryStatuses
     /\ s[i].currentlyDialingBy = Null
     /\ s[i].attempts <= MAX_ATTEMPTS}

\* Variant: the filter without the dialingStatus condition.
EligibleAnyStatus(s, u) ==
  {i \in DOMAIN s :
     /\ s[i].assignedTo = u
     /\ s[i].organizationId = OrgOf(u)
     /\ s[i].currentlyDialingBy = Null
     /\ s[i].attempts < MAX_ATTEMPTS}

Eligible(s, u) ==
  {i \in DOMAIN s :
     /\ s[i].assignedTo = u
     /\ s[i].organizationId = OrgOf(u)
     /\ s[i].dialingStatus \in RetryStatuses
     /\ s[i].currentlyDialingBy = Null
     /\ s[i].attempts < MAX_ATTEMPTS}

\* Variant: sort { priority: -1, createdAt: 1 }, attempts not a sort key.
SortsBeforeByPriority(d, e) ==
  \/ d.priority > e.priority
  \/ d.priority = e.priority /\ d.createdAt < e.createdAt

\* sort: { attempts: 1, priority: -1, createdAt: 1 }
SortsBefore(d, e) ==
  \/ d.attempts < e.attempts
  \/ d.attempts = e.attempts /\ d.priority > e.priority
  \/ d.attempts = e.attempts /\ d.priority = e.priority /\ d.createdAt < e.createdAt

\* Variant: the sort runs the other way and the last document is taken.
LastInOrder(s, S) == {i \in S : \A j \in S : ~SortsBefore(s[i], s[j])}

FirstInOrder(s, S) == {i \in S : \A j \in S : ~SortsBefore(s[j], s[i])}

\* Variant: the update stamps and counts the attempt but takes no lock.
LeasedWithoutLock(d, u, t) ==
  [d EXCEPT !.lastDialedAt = t, !.attempts = d.attempts + 1]

\* Variant: the update takes the lock but leaves the $inc out.
LeasedUncounted(d, u, t) ==
  [d EXCEPT !.dialingStatus = "dialing", !.currentlyDialingBy = u,
            !.lastDialedAt = t]

Leased(d, u, t) ==
  [d EXCEPT !.dialingStatus = "dialing", !.currentlyDialingBy = u,
            !.lastDialedAt = t, !.attempts = d.attempts + 1]

\* timesLeased[i] is the number of times /get-next-number has answered with
\* record i, for the records an execution keeps count of.
Counted(c, i) ==
  [j \in DOMAIN c |-> IF j = i THEN c[j] + 1 ELSE c[j]]

\* Variant: the update is applied to every matching document, not to the
\* first in sort order alone.
LeaseNextMany(u) ==
  /\ IF Eligible(store, u) = {}
       THEN /\ resp' = Response("leaseNext", u, 0, 204)
            /\ UNCHANGED <<store, openCall, timesLeased, sent>>
       ELSE \E i \in FirstInOrder(store, Eligible(store, u)) :
              /\ store' = [j \in DOMAIN store |->
                             IF j \in Eligible(store, u)
                               THEN Leased(store[j], u, now) ELSE store[j]]
              /\ openCall' = openCall \cup Eligible(store, u)
              /\ timesLeased' = Counted(timesLeased, i)
              /\ UNCHANGED sent
              /\ resp' = Response("leaseNext", u, i, 200)
  /\ UNCHANGED <<callLogs, uploads, now>>

LeaseNext(u) ==
  /\ IF Eligible(store, u) = {}
       THEN /\ resp' = Response("leaseNext", u, 0, 204)
            /\ UNCHANGED <<store, openCall, timesLeased, sent>>
       ELSE \E i \in FirstInOrder(store, Eligible(store, u)) :
              /\ store' = [store EXCEPT ![i] = Leased(store[i], u, now)]
              /\ openCall' = openCall \cup {i}
              /\ timesLeased' = Counted(timesLeased, i)
              /\ UNCHANGED sent
              /\ resp' = Response("leaseNext", u, i, 200)
  /\ UNCHANGED <<callLogs, uploads, now>>

\* ---------------------------------------------- POST /update-number-status
\* numberId 0 and status "" stand for a field missing from the request body.
\* Variant: the status follows the disposition instead of being "completed".
UpdateDataByDisposition(d, disposition, notes, comments, t) ==
  [d EXCEPT !.dialingStatus = IF disposition \in {"", "No Answer"}
                                THEN "no_answer" ELSE "completed",
            !.currentlyDialingBy = Null,
            !.completedAt = t,
            !.disposition = IF disposition # "" THEN disposition ELSE @,
            !.notes = IF notes # "" THEN notes ELSE @,
            !.comments = IF comments # "" THEN comments ELSE @]

\* Variant: a disposition is written only while the record has none.
UpdateDataKeepingFirst(d, disposition, notes, comments, t) ==
  [d EXCEPT !.dialingStatus = "completed",
            !.currentlyDialingBy = Null,
            !.completedAt = t,
            !.disposition = IF disposition # "" /\ @ = Null THEN disposition ELSE @,
            !.notes = IF notes # "" THEN notes ELSE @,
            !.comments = IF comments # "" THEN comments ELSE @]

\* Variant: the three fields are written whether supplied or not.
UpdateDataOverwriting(d, disposition, notes, comments, t) ==
  [d EXCEPT !.dialingStatus = "completed",
            !.currentlyDialingBy = Null,
            !.completedAt = t,
            !.disposition = IF disposition # "" THEN disposition ELSE Null,
            !.notes = IF notes # "" THEN notes ELSE Null,
            !.comments = IF comments # "" THEN comments ELSE Null]

UpdateData(d, disposition, notes, comments, t) ==
  [d EXCEPT !.dialingStatus = "completed",
            !.currentlyDialingBy = Null,
            !.completedAt = t,
            !.disposition = IF disposition # "" THEN disposition ELSE @,
            !.notes = IF notes # "" THEN notes ELSE @,
            !.comments = IF comments # "" THEN comments ELSE @]

\* Variant: the filter without currentlyDialingBy.
OwnedByTenant(s, numberId, u) ==
  /\ numberId \in DOMAIN s
  /\ s[numberId].organizationId = OrgOf(u)

\* Variant: the filter asks for a lock, not for the caller's lock.
OwnedBySomeone(s, numberId, u) ==
  /\ numberId \in DOMAIN s
  /\ s[numberId].organizationId = OrgOf(u)
  /\ s[numberId].currentlyDialingBy # Null

OwnedBy(s, numberId, u) ==
  /\ numberId \in DOMAIN s
  /\ s[numberId].organizationId = OrgOf(u)
  /\ s[numberId].currentlyDialingBy = u

Finalize(u, numberId, status, disposition, notes, comments) ==
  /\ IF numberId = 0 \/ status = ""
       THEN /\ resp' = Response("finalize", u, numberId, 400)
            /\ UNCHANGED <<store, openCall, timesLeased, sent>>
       ELSE IF OwnedBy(store, numberId, u)
         THEN /\ store' = [store EXCEPT ![numberId] =
                             UpdateData(@, disposition, notes, comments, now)]
              /\ openCall' = openCall \ {numberId}
              /\ UNCHANGED <<timesLeased, sent>>
              /\ resp' = Response("finalize", u, numberId, 200)
         ELSE /\ resp' = Response("finalize", u, numberId, 404)
              /\ UNCHANGED <<store, openCall, timesLeased, sent>>
  /\ UNCHANGED <<callLogs, uploads, now>>

\* ------------------------------------------------ POST /release-number-lock
\* Variant: the update clears the lock and leaves dialingStatus alone.
ReleasedKeepingStatus(d) == [d EXCEPT !.currentlyDialingBy = Null]

\* Variant: the release takes the attempt back.
ReleasedUncounting(d) ==
  [d EXCEPT !.dialingStatus = "pending", !.currentlyDialingBy = Null,
            !.attempts = d.attempts - 1]

\* Variant: the update resets dialingStatus and leaves the lock in place.
ReleasedKeepingLock(d) == [d EXCEPT !.dialingStatus = "pending"]

\* Variant: the release also wipes the outcome recorded by an earlier call.
ReleasedClearingOutcome(d) ==
  [d EXCEPT !.dialingStatus = "pending", !.currentlyDialingBy = Null,
            !.disposition = Null, !.notes = Null, !.comments = Null,
            !.completedAt = NoDate]

Released(d) == [d EXCEPT !.dialingStatus = "pending", !.currentlyDialingBy = Null]

Release(u, numberId) ==
  /\ IF numberId = 0
       THEN /\ resp' = Response("release", u, numberId, 400)
            /\ UNCHANGED <<store, openCall, timesLeased, sent>>
       ELSE IF OwnedBy(store, numberId, u)
         THEN /\ store' = [store EXCEPT ![numberId] = Released(@)]
              /\ openCall' = openCall \ {numberId}
              /\ UNCHANGED <<timesLeased, sent>>
              /\ resp' = Response("release", u, numberId, 200)
         ELSE /\ resp' = Response("release", u, numberId, 404)
              /\ UNCHANGED <<store, openCall, timesLeased, sent>>
  /\ UNCHANGED <<callLogs, uploads, now>>

\* ---------------------------------------------------------- POST /log
\* Every branch but the update of an open log saves a new CallLog document
\* carrying the phone number of the request body.
Log(u, number) ==
  /\ callLogs' = callLogs \cup {number}
  /\ resp' = Response("log", u, 0, 200)
  /\ UNCHANGED <<store, uploads, now, openCall, timesLeased, sent>>

\* ---------------------------------------------------- POST /disposition
DispositionMatch(s, u, number) ==
  {i \in DOMAIN s :
     /\ s[i].phoneNumber = number
     /\ s[i].assignedTo = u
     /\ s[i].organizationId = OrgOf(u)}

Disposed(d, disposition, notes, t) ==
  [d EXCEPT !.disposition = disposition, !.notes = notes,
            !.dialingStatus = "completed", !.completedAt = t,
            !.currentlyDialingBy = Null]

Disposition(u, callId, disposition, notes) ==
  /\ IF callId = ""
       THEN /\ resp' = Response("disposition", u, 0, 400)
            /\ UNCHANGED <<store, openCall, timesLeased, sent>>
       ELSE IF callId \notin callLogs
         THEN /\ resp' = Response("disposition", u, 0, 404)
              /\ UNCHANGED <<store, openCall, timesLeased, sent>>
         ELSE IF DispositionMatch(store, u, callId) = {}
           THEN /\ resp' = Response("disposition", u, 0, 200)
                /\ UNCHANGED <<store, openCall, timesLeased, sent>>
           ELSE \E i \in DispositionMatch(store, u, callId) :
                  /\ store' = [store EXCEPT ![i] = Disposed(@, disposition, notes, now)]
                  /\ openCall' = openCall \ {i}
                  /\ UNCHANGED <<timesLeased, sent>>
                  /\ resp' = Response("disposition", u, i, 200)
  /\ UNCHANGED <<callLogs, uploads, now>>

\* -------------------------------------------------- POST /upload-numbers
\* assignToUserId Null stands for a missing field, "nobody" for an id that
\* names no User document.
UploadResponse(u, code, up) ==
  [op |-> "upload", by |-> u, id |-> 0, code |-> code,
   results |-> [uploaded |-> up.uploaded, duplicates |-> up.duplicates,
                errors |-> up.errors]]

UploadRejection(u, to) ==
  IF UserDocs[u].role = "agent" THEN 403
  ELSE IF to = Null THEN 400
  ELSE IF to \notin Users THEN 404
  ELSE IF /\ UserDocs[u].role = "admin"
          /\ UserDocs[to].createdBy # u
          /\ to # u THEN 403
  ELSE 0

FreeSlot == {k \in DOMAIN uploads : uploads[k].pc = "idle"}

UploadStart(u, to, numbers) ==
  /\ IF UploadRejection(u, to) # 0
       THEN /\ resp' = Response("upload", u, 0, UploadRejection(u, to))
            /\ UNCHANGED uploads
       ELSE IF numbers = <<>>
         THEN /\ resp' = UploadResponse(u, 200, IdleUpload)
              /\ UNCHANGED uploads
         ELSE \E k \in FreeSlot :
                /\ uploads' = [uploads EXCEPT ![k] =
                     [IdleUpload EXCEPT !.pc = "find", !.by = u, !.to = to,
                                        !.todo = numbers]]
                /\ UNCHANGED resp
  /\ UNCHANGED <<store, callLogs, now, openCall, timesLeased, sent>>

\* DialList.findOne({ phoneNumber, organizationId })
SameNumber(s, number, org) ==
  {i \in DOMAIN s : s[i].phoneNumber = number /\ s[i].organizationId = org}

UploadFind(k) ==
  /\ uploads[k].pc = "find"
  /\ uploads' = [uploads EXCEPT ![k].pc = "write",
       ![k].existing = (SameNumber(store, Head(uploads[k].todo),
                                   OrgOf(uploads[k].by)) # {})]
  /\ UNCHANGED <<store, callLogs, now, openCall, timesLeased, sent, resp>>

\* DialList.updateOne(..., { $set: {...}, $unset: { lastDialedAt, lastDialedBy } })
\* Variant: the $set without attempts: 0.
ResetKeepingAttempts(d, to, by) ==
  [d EXCEPT !.dialingStatus = "pending",
            !.currentlyDialingBy = Null, !.assignedTo = to, !.uploadedBy = by,
            !.lastDialedAt = NoDate]

\* Variant: the reset also wipes the outcome of earlier calls.
ResetClearingOutcome(d, to, by) ==
  [d EXCEPT !.dialingStatus = "pending", !.attempts = 0,
            !.currentlyDialingBy = Null, !.assignedTo = to, !.uploadedBy = by,
            !.lastDialedAt = NoDate, !.disposition = Null, !.notes = Null,
            !.comments = Null, !.completedAt = NoDate]

\* Variant: the $set reassigns the record and leaves currentlyDialingBy alone.
ResetKeepingLock(d, to, by) ==
  [d EXCEPT !.dialingStatus = "pending", !.attempts = 0,
            !.assignedTo = to, !.uploadedBy = by, !.lastDialedAt = NoDate]

Reset(d, to, by) ==
  [d EXCEPT !.dialingStatus = "pending", !.attempts = 0,
            !.currentlyDialingBy = Null, !.assignedTo = to, !.uploadedBy = by,
            !.lastDialedAt = NoDate]

\* The loop moves to the next number, or answers once the array is exhausted.
UploadAdvance(k, up) ==
  IF Tail(up.todo) = <<>>
    THEN /\ uploads' = [uploads EXCEPT ![k] = IdleUpload]
         /\ resp' = UploadResponse(up.by, 200, up)
    ELSE /\ uploads' = [uploads EXCEPT ![k] = [up EXCEPT !.pc = "find",
                                                       !.todo = Tail(up.todo)]]
         /\ UNCHANGED resp

UploadReset(k) ==
  LET up == uploads[k]
      same == SameNumber(store, Head(up.todo), OrgOf(up.by))
  IN /\ up.pc = "write"
     /\ up.existing
     /\ IF same = {}
          THEN UNCHANGED <<store, openCall, timesLeased, sent>>
          ELSE \E i \in same :
                 /\ store' = [store EXCEPT ![i] = Reset(@, up.to, up.by)]
                 /\ UNCHANGED <<openCall, timesLeased, sent>>
     /\ UploadAdvance(k, [up EXCEPT !.duplicates = @ + 1])
     /\ UNCHANGED <<callLogs, now>>

\* Variant: the collection has no unique index and every insert goes through.
UploadSaveUnindexed(k) ==
  LET up == uploads[k]
  IN /\ up.pc = "write"
     /\ ~up.existing
     /\ store' = Append(store, NewDialList(Head(up.todo), OrgOf(up.by),
                                           up.by, up.to, now))
     /\ UploadAdvance(k, [up EXCEPT !.uploaded = @ + 1])
     /\ UNCHANGED <<callLogs, now, openCall, timesLeased, sent>>

\* new DialList({...}).save(); the unique index on (organizationId,
\* phoneNumber) makes the insert throw when the pair is already stored.
UploadSave(k) ==
  LET up == uploads[k]
      same == SameNumber(store, Head(up.todo), OrgOf(up.by))
  IN /\ up.pc = "write"
     /\ ~up.existing
     /\ IF same # {}
          THEN /\ UNCHANGED store
               /\ UploadAdvance(k, [up EXCEPT !.errors = @ + 1])
          ELSE /\ store' = Append(store, NewDialList(Head(up.todo), OrgOf(up.by),
                                                     up.by, up.to, now))
               /\ UploadAdvance(k, [up EXCEPT !.uploaded = @ + 1])
     /\ UNCHANGED <<callLogs, now, openCall, timesLeased, sent>>

\* ------------------------------------------------------ request inputs
\* Bodies of POST /update-number-status: <<status, disposition, notes, comments>>.
FinalizeBodies == {<<"", "Sale", "", "">>,
                   <<"completed", "", "", "">>,
                   <<"failed", "No Answer", "n1", "c1">>,
                   <<"completed", "Sale", "", "">>}

\* Requests to /update-number-status: <<numberId, body>>, numberId being
\* missing (0), a stored _id, or an _id not stored.
FinalizeRequests(s) ==
  {<<0, <<"completed", "Sale", "", "">>>>, <<Len(s) + 1, <<"completed", "Sale", "", "">>>>}
    \cup ((DOMAIN s) \X FinalizeBodies)

\* Requests to /upload-numbers: <<assignToUserId, numbers>>.
UploadRequests ==
  {<<to, <<"p1">>>> : to \in Users \cup {Null, "nobody"}} \cup {<<"A", <<>>>>}

\* Bodies of POST /disposition: <<disposition, notes>>.
DispositionBodies == {<<"Sale", "n1">>}

\* numberId of a request: missing (0), a stored _id, or an _id not stored.
NumberIds(s) == {0} \cup DOMAIN s \cup {Len(s) + 1}

\* The users that send requests: the two users of tenant o1.
Actors == {"A", "B"}

Next ==
  \/ Tick
  \/ \E u \in Actors : LeaseNext(u)
  \/ \E u \in Actors, numberId \in NumberIds(store) : Release(u, numberId)
  \/ \E u \in Actors, r \in FinalizeRequests(store) :
       Finalize(u, r[1], r[2][1], r[2][2], r[2][3], r[2][4])
  \/ \E u \in Actors, number \in RequestPhones : Log(u, number)
  \/ \E u \in Actors, callId \in CallIds, b \in DispositionBodies :
       Disposition(u, callId, b[1], b[2])
  \/ \E u \in Actors, r \in UploadRequests :
       UploadStart(u, r[1], r[2])
  \/ \E k \in DOMAIN uploads : UploadFind(k)
  \/ \E k \in DOMAIN uploads : UploadReset(k)
  \/ \E k \in DOMAIN uploads : UploadSave(k)

Spec == Init /\ [][Next]_vars

\* ------------------------------------------------- a stored pool of agent A
\* The collection holds one document per number of PoolNumbers, of tenant o1
\* and assigned to A, of any re-dialable status, attempt count, priority and
\* creation time the schema admits; the agents then lease and release.
PoolNumbers == <<"p1", "p2">>

SeedShapes ==
  [dialingStatus : RetryStatuses, attempts : 0..MAX_ATTEMPTS,
   priority : {DefaultPriority, DefaultPriority + 1}, createdAt : 0..MaxTime]

Seed(number, shape) ==
  [NewDialList(number, "o1", "A", "A", shape.createdAt)
     EXCEPT !.dialingStatus = shape.dialingStatus, !.attempts = shape.attempts,
            !.priority = shape.priority]

InitPool ==
  /\ \E f \in [DOMAIN PoolNumbers -> SeedShapes] :
       store = [i \in DOMAIN PoolNumbers |-> Seed(PoolNumbers[i], f[i])]
  /\ callLogs = {}
  /\ uploads = [k \in UploadSlots |-> IdleUpload]
  /\ now = MaxTime
  /\ openCall = {}
  /\ timesLeased = <<>>
  /\ sent = {}
  /\ resp = Response("none", Null, 0, 0)

NextPool ==
  \/ \E u \in Actors : LeaseNext(u)
  \/ \E u \in Actors, numberId \in NumberIds(store) : Release(u, numberId)

SpecPool == InitPool /\ [][NextPool]_vars

\* --------------------------------------- agent A asking for number after number
\* Over the same stored pool A calls /get-next-number again and again, with
\* no other request in between.
NextRun == LeaseNext("A")

SpecRun == InitPool /\ [][NextRun]_vars

\* ------------------------------------------------ the store failing a request
\* A store call that throws lands in the handler's catch block, which answers
\* 500; the handler has made no other write and does not call the store again.
StoreFails(op, u, id) ==
  /\ resp' = Response(op, u, id, 500)
  /\ UNCHANGED <<store, callLogs, uploads, now, openCall, timesLeased, sent>>

\* Variant: the failure is raised after the update went through.
LeaseNextFailsAfterWrite(u) ==
  /\ Eligible(store, u) # {}
  /\ \E i \in FirstInOrder(store, Eligible(store, u)) :
       /\ store' = [store EXCEPT ![i] = Leased(store[i], u, now)]
       /\ openCall' = openCall \cup {i}
       /\ timesLeased' = Counted(timesLeased, i)
       /\ UNCHANGED sent
  /\ resp' = Response("leaseNext", u, 0, 500)
  /\ UNCHANGED <<callLogs, uploads, now>>

LeaseNextFails(u) == StoreFails("leaseNext", u, 0)

ReleaseFails(u, numberId) ==
  /\ numberId # 0
  /\ StoreFails("release", u, numberId)

FinalizeFails(u, numberId, status) ==
  /\ numberId # 0
  /\ status # ""
  /\ StoreFails("finalize", u, numberId)

\* Over the stored pool agent A, to whom the pool is assigned, leases,
\* releases and finalizes, and any of these requests may meet a failing store.
NextDesk ==
  \/ LeaseNext("A")
  \/ \E numberId \in NumberIds(store) : Release("A", numberId)
  \/ \E r \in FinalizeRequests(store) :
       Finalize("A", r[1], r[2][1], r[2][2], r[2][3], r[2][4])
  \/ LeaseNextFails("A")
  \/ \E numberId \in NumberIds(store) : ReleaseFails("A", numberId)
  \/ \E r \in FinalizeRequests(store) : FinalizeFails("A", r[1], r[2][1])

SpecDesk == InitPool /\ [][NextDesk]_vars

\* ------------------------------------------------ the pool being worked off
\* No number is imported. Agent A keeps asking for numbers, and whoever holds
\* a lease gives it up in the end, by a release or by a finalize.
GivesUp(u) ==
  \E i \in DOMAIN store :
    /\ store[i].currentlyDialingBy = u
    /\ \/ Release(u, i)
       \/ \E b \in FinalizeBodies :
            b[1] # "" /\ Finalize(u, i, b[1], b[2], b[3], b[4])

NextProgress ==
  \/ LeaseNext("A")
  \/ GivesUp("A")

SpecProgress ==
  /\ InitPool
  /\ [][NextProgress]_vars
  /\ WF_vars(LeaseNext("A"))
  /\ WF_vars(GivesUp("A"))

\* ---------------------------------------------------- GET /dialing-stats
DialingStatuses == {"pending", "dialing", "completed", "failed", "busy", "no_answer"}

\* Variant: the $match without assignedTo.
StatsMatchTenant(s, u) ==
  {i \in DOMAIN s : s[i].organizationId = OrgOf(u)}

\* $match: { assignedTo: userId, organizationId: req.user.organizationId }
StatsMatch(s, u) ==
  {i \in DOMAIN s : s[i].assignedTo = u /\ s[i].organizationId = OrgOf(u)}

\* $group: { _id: "$dialingStatus", count: { $sum: 1 } }: one group per
\* status that occurs among the matched documents.
StatsGroups(s, u) ==
  {[_id |-> st, count |-> Cardinality({i \in StatsMatch(s, u) : s[i].dialingStatus = st})] :
     st \in {s[i].dialingStatus : i \in StatsMatch(s, u)}}

\* formattedStats starts with the six statuses at 0 and takes the count of
\* every group.
FormattedStats(s, u) ==
  [st \in DialingStatuses \cup {g._id : g \in StatsGroups(s, u)} |->
     IF \E g \in StatsGroups(s, u) : g._id = st
       THEN (CHOOSE g \in StatsGroups(s, u) : g._id = st).count
       ELSE 0]

Stats(u) ==
  /\ resp' = [Response("stats", u, 0, 200) EXCEPT !.results = FormattedStats(store, u)]
  /\ UNCHANGED <<store, callLogs, uploads, now, openCall, timesLeased, sent>>

\* Over the stored pool agent A leases and gives leases up while the agents
\* read their statistics.
NextStats ==
  \/ LeaseNext("A")
  \/ GivesUp("A")
  \/ \E u \in Actors : Stats(u)

SpecStats == InitPool /\ [][NextStats]_vars

\* ------------------------------------------------------- GET /my-numbers
MyNumbersMatch(s, u) ==
  {i \in DOMAIN s :
     /\ s[i].assignedTo = u
     /\ s[i].organizationId = OrgOf(u)
     /\ s[i].dialingStatus \in RetryStatuses}

\* sort({ priority: -1, createdAt: 1 }): every listing of the matched
\* documents that the sort admits.
MyNumbersLists(s, u) ==
  LET S == MyNumbersMatch(s, u)
  IN {q \in [1..Cardinality(S) -> S] :
        /\ \A a, b \in DOMAIN q : a # b => q[a] # q[b]
        /\ \A a, b \in DOMAIN q :
             a < b => ~SortsBeforeByPriority(s[q[b]], s[q[a]])}

MyNumbers(u) ==
  /\ \E q \in MyNumbersLists(store, u) :
       resp' = [Response("myNumbers", u, 0, 200) EXCEPT !.results = q]
  /\ UNCHANGED <<store, callLogs, uploads, now, openCall, timesLeased, sent>>

\* ------------------------------------------------------------ two tenants
\* A of tenant o1 and X of tenant o2 import the same phone number, each into
\* its own tenant and both naming A as the assignee, which X, an owner, may
\* do. Both then work their numbers.
TenantActors == {"A", "X"}

TenantUploads == {<<"A", <<"p1">>>>}

NextTenants ==
  \/ \E u \in TenantActors, r \in TenantUploads : UploadStart(u, r[1], r[2])
  \/ \E k \in DOMAIN uploads : UploadFind(k)
  \/ \E k \in DOMAIN uploads : UploadReset(k)
  \/ \E k \in DOMAIN uploads : UploadSave(k)
  \/ \E u \in TenantActors : LeaseNext(u)
  \/ \E u \in TenantActors, numberId \in DOMAIN store : Release(u, numberId)
  \/ \E u \in TenantActors, numberId \in DOMAIN store :
       Finalize(u, numberId, "completed", "Sale", "", "")
  \/ \E u \in TenantActors, number \in RequestPhones : Log(u, number)
  \/ \E u \in TenantActors, b \in DispositionBodies :
       Disposition(u, "p1", b[1], b[2])
  \/ \E u \in TenantActors : Stats(u)
  \/ \E u \in TenantActors : MyNumbers(u)

SpecTenants == Init /\ [][NextTenants]_vars

\* ------------------------------------------- number imports running together
\* Two /upload-numbers requests can be in flight at once, each between its
\* findOne and its write, over numbers p1 and p2 and for either assignee,
\* while the agents ask for numbers.
ImportSlots == {"u1", "u2"}

ImportRequests ==
  {<<"A", <<"p1">>>>, <<"B", <<"p1">>>>, <<"B", <<"p2", "p1">>>>}

InitImport ==
  /\ store = <<>>
  /\ callLogs = {}
  /\ uploads = [k \in ImportSlots |-> IdleUpload]
  /\ now = 0
  /\ openCall = {}
  /\ timesLeased = <<>>
  /\ sent = {}
  /\ resp = Response("none", Null, 0, 0)

NextImport ==
  \/ \E u \in Actors, r \in ImportRequests : UploadStart(u, r[1], r[2])
  \/ \E k \in DOMAIN uploads : UploadFind(k)
  \/ \E k \in DOMAIN uploads : UploadReset(k)
  \/ \E k \in DOMAIN uploads : UploadSave(k)
  \/ \E u \in Actors : LeaseNext(u)

SpecImport == InitImport /\ [][NextImport]_vars

\* ------------------------------------------- a pool worked without re-import
\* Two numbers have just been imported into tenant o1, each assigned to A or
\* to B; from then on the agents lease, release, finalize and file
\* dispositions, and no further import arrives. Every hand-out is counted.
InitCount ==
  /\ \E f \in [DOMAIN PoolNumbers -> Actors] :
       store = [i \in DOMAIN PoolNumbers |->
                  NewDialList(PoolNumbers[i], "o1", "A", f[i], 0)]
  /\ callLogs = {}
  /\ uploads = [k \in UploadSlots |-> IdleUpload]
  /\ now = MaxTime
  /\ openCall = {}
  /\ timesLeased = [i \in DOMAIN PoolNumbers |-> 0]
  /\ sent = {}
  /\ resp = Response("none", Null, 0, 0)

NextCount ==
  \/ \E u \in Actors : LeaseNext(u)
  \/ \E u \in Actors, numberId \in DOMAIN store : Release(u, numberId)
  \/ \E u \in Actors, numberId \in DOMAIN store :
       Finalize(u, numberId, "completed", "Sale", "", "")
  \/ \E u \in Actors : Log(u, "p1")
  \/ \E u \in Actors, b \in DispositionBodies : Disposition(u, "p1", b[1], b[2])

SpecCount == InitCount /\ [][NextCount]_vars

\* ------------------------------------------------- requests that arrive late
\* A has one imported number. The dialer sends a finalize or release request
\* for the record A holds; the request reaches its handler at any later time,
\* also after other requests sent later, and possibly more than once.
Request(u, op, id, lease) == [by |-> u, op |-> op, id |-> id, lease |-> lease]

Send(u, op) ==
  /\ \E i \in DOMAIN store :
       /\ store[i].currentlyDialingBy = u
       /\ Request(u, op, i, timesLeased[i]) \notin sent
       /\ sent' = sent \cup {Request(u, op, i, timesLeased[i])}
  /\ UNCHANGED <<store, callLogs, uploads, now, openCall, timesLeased, resp>>

Arrive ==
  \E m \in sent :
    IF m.op = "release"
      THEN Release(m.by, m.id)
      ELSE Finalize(m.by, m.id, "completed", "Sale", "", "")

InitDelay ==
  /\ store = <<NewDialList("p1", "o1", "A", "A", 0)>>
  /\ callLogs = {}
  /\ uploads = [k \in UploadSlots |-> IdleUpload]
  /\ now = MaxTime
  /\ openCall = {}
  /\ timesLeased = <<0>>
  /\ sent = {}
  /\ resp = Response("none", Null, 0, 0)

NextDelay ==
  \/ LeaseNext("A")
  \/ \E op \in {"release", "finalize"} : Send("A", op)
  \/ Arrive

SpecDelay == InitDelay /\ [][NextDelay]_vars

\* =================================================================== claims
PoolEligible(s) == UNION {Eligible(s, u) : u \in Users}

\* The step is a call of operation op; resp'.by is then its caller.
Answered(op) == resp'.op = op

\* The step is a leaseNext call that hands a record out; resp'.id is the record.
Returned == Answered("leaseNext") /\ resp'.code = 200 /\ LeaseNext(resp'.by)

\* C1: while the pool holds at most one eligible record, a leaseNext call by
\* the agent it is eligible for returns that record and leaves no record
\* eligible for anyone, and a call by any other agent (or any call once the
\* record is taken) returns NoEligibleRecord and changes nothing: of any
\* number of racing calls exactly one gets the record.
C1_MutualExclusion ==
  [][(/\ Answered("leaseNext")
       /\ LeaseNext(resp'.by)
       /\ Cardinality(PoolEligible(store)) <= 1) =>
        IF Eligible(store, resp'.by) # {}
          THEN /\ resp'.code = 200
               /\ {resp'.id} = PoolEligible(store)
               /\ PoolEligible(store') = {}
          ELSE /\ resp'.code = 204
               /\ store' = store]_vars

C1_Witness ==
  /\ resp.op = "leaseNext"
  /\ resp.code = 204
  /\ \E i \in DOMAIN store :
       /\ store[i].assignedTo = resp.by
       /\ store[i].currentlyDialingBy = resp.by
       /\ store[i].attempts = 1

\* C2: leaseNext never returns a record on which an earlier lease is still
\* open (handed out and neither released nor finalized since).
C2_NeverDoubleAssigned ==
  [][Returned => resp'.id \notin openCall]_vars

\* C3: in every reachable state, for every record, dialingStatus is "dialing"
\* exactly when currentlyDialingBy is set.
C3_DialingIffLocked ==
  \A i \in DOMAIN store :
    (store[i].dialingStatus = "dialing") <=> (store[i].currentlyDialingBy # Null)

C3_Witness ==
  \E i \in DOMAIN store :
    /\ store[i].dialingStatus = "dialing"
    /\ store[i].currentlyDialingBy # Null
    /\ store[i].attempts = 2
    /\ store[i].completedAt # NoDate

\* C4: a successful leaseNext raises attempts of the returned record by
\* exactly one in the step that takes the lock, and no reachable state holds
\* a locked record whose attempt is uncounted.
C4_AttemptCountedWithLock ==
  /\ [](\A i \in DOMAIN store :
          store[i].currentlyDialingBy # Null => store[i].attempts >= 1)
  /\ [][Returned =>
          /\ store'[resp'.id].attempts = store[resp'.id].attempts + 1
          /\ store[resp'.id].currentlyDialingBy = Null
          /\ store'[resp'.id].currentlyDialingBy = resp'.by]_vars

C4_Witness ==
  /\ resp.op = "leaseNext"
  /\ resp.code = 200
  /\ resp.id \in DOMAIN store
  /\ store[resp.id].currentlyDialingBy = resp.by
  /\ store[resp.id].attempts = 3

\* C5: a leaseNext call by any agent neither returns nor changes a record
\* whose attempts is 3, whatever the record's dialingStatus.
C5_CapEnforced ==
  [][(Answered("leaseNext") /\ LeaseNext(resp'.by)) =>
       \A i \in DOMAIN store :
         store[i].attempts = 3 => (resp'.id # i /\ store'[i] = store[i])]_vars

C5_Witness ==
  /\ resp.op = "leaseNext"
  /\ resp.code = 204
  /\ \E i, j \in DOMAIN store :
       /\ store[i].assignedTo = resp.by
       /\ store[j].assignedTo = resp.by
       /\ store[i].dialingStatus = "pending"
       /\ store[j].dialingStatus \in {"failed", "busy", "no_answer"}
       /\ store[i].currentlyDialingBy = Null
       /\ store[j].currentlyDialingBy = Null
       /\ store[i].attempts = 3
       /\ store[j].attempts = 3

\* C6: a release by an agent other than the holder of the lease answers
\* NotFoundOrNotOwned (404) and changes no record.
C6_ReleaseOwnershipGuard ==
  [][Answered("release") =>
       \A i \in DOMAIN store :
         (/\ store[i].currentlyDialingBy \notin {Null, resp'.by}
          /\ Release(resp'.by, i)) =>
           (resp'.code = 404 /\ store' = store)]_vars

C6_Witness ==
  /\ resp.op = "release"
  /\ resp.code = 404
  /\ resp.id \in DOMAIN store
  /\ store[resp.id].dialingStatus = "dialing"
  /\ store[resp.id].currentlyDialingBy \notin {Null, resp.by}

\* C7: a finalize by an agent other than the holder of the lease answers
\* NotFoundOrNotOwned (404) and changes no record: it stays dialing, held by
\* the holder, with disposition, notes, comments and completedAt as before.
C7_FinalizeOwnershipGuard ==
  [][Answered("finalize") =>
       \A i \in DOMAIN store : \A b \in FinalizeBodies :
         (/\ b[1] # ""
          /\ store[i].currentlyDialingBy \notin {Null, resp'.by}
          /\ Finalize(resp'.by, i, b[1], b[2], b[3], b[4])) =>
           (resp'.code = 404 /\ store' = store)]_vars

C7_Witness ==
  /\ resp.op = "finalize"
  /\ resp.code = 404
  /\ resp.id \in DOMAIN store
  /\ store[resp.id].dialingStatus = "dialing"
  /\ store[resp.id].currentlyDialingBy \notin {Null, resp.by}

\* C8: a release by the holder of the lease answers success and leaves the
\* record pending and unlocked with attempts at its post-lease value, which
\* counts the lease (at least 1, not decremented).
C8_ReleaseRoundTrip ==
  [][Answered("release") =>
       \A i \in DOMAIN store :
         (/\ store[i].currentlyDialingBy = resp'.by
          /\ Release(resp'.by, i)) =>
           /\ resp'.code = 200
           /\ store'[i].dialingStatus = "pending"
           /\ store'[i].currentlyDialingBy = Null
           /\ store'[i].attempts = store[i].attempts
           /\ store'[i].attempts >= 1]_vars

C8_Witness ==
  /\ resp.op = "release"
  /\ resp.code = 200
  /\ resp.id \in DOMAIN store
  /\ store[resp.id].dialingStatus = "pending"
  /\ store[resp.id].currentlyDialingBy = Null
  /\ store[resp.id].attempts = 1

\* C9: every finalize that answers success leaves the record completed,
\* unlocked and with completedAt stamped, whatever disposition was passed.
C9_FinalizeTerminal ==
  [][(Answered("finalize") /\ resp'.code = 200) =>
       \A i \in DOMAIN store : \A b \in FinalizeBodies :
         Finalize(resp'.by, i, b[1], b[2], b[3], b[4]) =>
           /\ store'[i].dialingStatus = "completed"
           /\ store'[i].currentlyDialingBy = Null
           /\ store'[i].completedAt = now
           /\ store'[i].completedAt # NoDate]_vars

C9_Witness ==
  /\ resp.op = "finalize"
  /\ resp.code = 200
  /\ resp.id \in DOMAIN store
  /\ store[resp.id].dialingStatus = "completed"
  /\ store[resp.id].disposition = Null
  /\ store[resp.id].completedAt # NoDate

\* C10: the record leaseNext returns has the fewest attempts among the
\* caller's eligible records, the highest priority among those with as few
\* attempts, and the earliest createdAt among those with that priority too.
C10_DialOrder ==
  [][Returned =>
       \A j \in Eligible(store, resp'.by) :
         /\ store[resp'.id].attempts <= store[j].attempts
         /\ store[resp'.id].attempts = store[j].attempts =>
              store[resp'.id].priority >= store[j].priority
         /\ (/\ store[resp'.id].attempts = store[j].attempts
             /\ store[resp'.id].priority = store[j].priority) =>
              store[resp'.id].createdAt <= store[j].createdAt]_vars

C10_Witness ==
  /\ resp.op = "leaseNext"
  /\ resp.code = 200
  /\ \E i, j \in DOMAIN store :
       /\ resp.id = i
       /\ store[i].attempts = 1
       /\ store[j].assignedTo = resp.by
       /\ store[j].dialingStatus \in RetryStatuses
       /\ store[j].currentlyDialingBy = Null
       /\ store[j].attempts \in 1..2
       /\ store[j].priority > store[i].priority

\* C11: when agent A calls leaseNext again and again over a pool holding k
\* eligible records, with no release or finalize in between, every call made
\* while a record is still unlocked and under the cap returns such a record,
\* one not handed out before in the run, and every record handed out earlier
\* came no later in dial order (fewest attempts, then highest priority, then
\* oldest, attempts taken as they were before the lease counted them); the
\* call answers NoEligibleRecord only once all k records have been handed out.
C11_RunInDialOrder ==
  /\ []((resp.op = "leaseNext" /\ resp.code = 204) =>
          \A i \in DOMAIN store :
            \/ store[i].currentlyDialingBy = resp.by
            \/ store[i].attempts >= 3)
  /\ [][(Answered("leaseNext") /\ LeaseNext(resp'.by)) =>
          /\ (\E i \in DOMAIN store :
                 store[i].currentlyDialingBy = Null /\ store[i].attempts < 3)
               => resp'.code = 200
          /\ resp'.code = 200 =>
               /\ store[resp'.id].currentlyDialingBy = Null
               /\ store[resp'.id].attempts < 3
               /\ \A j \in DOMAIN store :
                    store[j].currentlyDialingBy = resp'.by =>
                      LET a == store[j].attempts - 1
                          r == store[resp'.id]
                      IN \/ a < r.attempts
                         \/ a = r.attempts /\ store[j].priority > r.priority
                         \/ /\ a = r.attempts
                            /\ store[j].priority = r.priority
                            /\ store[j].createdAt <= r.createdAt]_vars

C11_Witness ==
  /\ resp.op = "leaseNext"
  /\ resp.code = 204
  /\ resp.by = "A"
  /\ \E i, j \in DOMAIN store :
       /\ store[i].priority = 2 /\ store[j].priority = 1
       /\ store[i].attempts = 1 /\ store[j].attempts = 1
       /\ store[i].currentlyDialingBy = "A"
       /\ store[j].currentlyDialingBy = "A"

C13_RedundantReleaseSafe ==
  /\ []((resp.op = "release" /\ resp.code = 200) =>
          store[resp.id].currentlyDialingBy # resp.by)
  /\ [][\A i \in DOMAIN store :
          (store[i].currentlyDialingBy # store'[i].currentlyDialingBy
             /\ store'[i].currentlyDialingBy # Null) =>
            /\ Answered("leaseNext")
            /\ resp'.code = 200
            /\ resp'.id = i
            /\ resp'.by = store'[i].currentlyDialingBy]_vars
  /\ [][Answered("release") =>
          \A i \in DOMAIN store :
            (/\ store[i].currentlyDialingBy # resp'.by
             /\ Release(resp'.by, i)) =>
              (resp'.code = 404 /\ store' = store)]_vars

C13_Witness ==
  /\ resp.op = "release"
  /\ resp.code = 404
  /\ resp.id \in DOMAIN store
  /\ store[resp.id].assignedTo = resp.by
  /\ store[resp.id].dialingStatus = "pending"
  /\ store[resp.id].currentlyDialingBy = Null
  /\ store[resp.id].attempts >= 1

\* C14: a lease stays with its holder until the holder gives it up: no step
\* other than a successful release, finalize or /disposition by the holder
\* takes currentlyDialingBy of a held record away, whatever other agents,
\* number import and /disposition do in between; and a release by the holder
\* succeeds and leaves the record pending and unlocked.
C14_ReleaseAlwaysAvailable ==
  /\ [][\A i \in DOMAIN store :
          (/\ store[i].currentlyDialingBy # Null
           /\ store'[i].currentlyDialingBy # store[i].currentlyDialingBy) =>
            /\ resp'.op \in {"release", "finalize", "disposition"}
            /\ resp'.code = 200
            /\ resp'.id = i
            /\ resp'.by = store[i].currentlyDialingBy]_vars
  /\ [][Answered("release") =>
          \A i \in DOMAIN store :
            (/\ store[i].currentlyDialingBy = resp'.by
             /\ Release(resp'.by, i)) =>
              /\ resp'.code = 200
              /\ store'[i].dialingStatus = "pending"
              /\ store'[i].currentlyDialingBy = Null]_vars

\* C15: currentlyDialingBy, dialingStatus and attempts of an existing record
\* change only in a step of leaseNext, release or finalize that answers
\* success for that record; every other operation leaves the three fields of
\* every existing record as they were.
C15_LeaseFieldsFrame ==
  [][\A i \in DOMAIN store :
       (\/ store'[i].currentlyDialingBy # store[i].currentlyDialingBy
        \/ store'[i].dialingStatus # store[i].dialingStatus
        \/ store'[i].attempts # store[i].attempts) =>
         /\ resp'.op \in {"leaseNext", "release", "finalize"}
         /\ resp'.code = 200
         /\ resp'.id = i]_vars

\* C16 as stated: in every step, attempts of every record is at least what it
\* was before the step.
C16_AttemptsNeverDecrease ==
  [][\A i \in DOMAIN store : store'[i].attempts >= store[i].attempts]_vars

\* C16 amended: attempts of a record decreases only in the step of a number
\* import that resets that record, which sets it to 0; in every other step
\* attempts is at least what it was before.
C16_DecreaseOnlyByImport ==
  [][\A i \in DOMAIN store :
       store'[i].attempts < store[i].attempts =>
         /\ store'[i].attempts = 0
         /\ \E k \in DOMAIN uploads :
              /\ uploads[k].pc = "write"
              /\ uploads[k].existing
              /\ Head(uploads[k].todo) = store[i].phoneNumber
              /\ UploadReset(k)]_vars

C16_Witness ==
  /\ resp.op = "upload"
  /\ resp.results.duplicates = 1
  /\ \E i \in DOMAIN store :
       /\ store[i].attempts = 0
       /\ store[i].dialingStatus = "pending"
       /\ store[i].comments = "c1"

\* C17: a record enters the collection by import with attempts = 0, and in
\* every reachable state every record has 0 <= attempts <= 3.
C17_AttemptsWithinCap ==
  /\ [](\A i \in DOMAIN store : store[i].attempts >= 0 /\ store[i].attempts <= 3)
  /\ [][\A i \in DOMAIN store' : i \notin DOMAIN store => store'[i].attempts = 0]_vars

C17_Witness ==
  \E i \in DOMAIN store :
    /\ store[i].attempts = 3
    /\ store[i].dialingStatus = "pending"
    /\ store[i].currentlyDialingBy = Null

\* C18 as stated: when a finalize of a record by an agent has just answered
\* success and the same agent calls finalize on the same record again with a
\* different disposition, the record holds the second disposition afterwards.
C18_SecondFinalizeOverwrites ==
  [][(resp.op = "finalize" /\ resp.code = 200 /\ Answered("finalize")) =>
       \A b \in FinalizeBodies :
         (/\ b[1] # "" /\ b[2] # ""
          /\ store[resp.id].disposition \notin {Null, b[2]}
          /\ Finalize(resp.by, resp.id, b[1], b[2], b[3], b[4])) =>
           store'[resp.id].disposition = b[2]]_vars

\* C18 amended: a finalize with a disposition different from the one the
\* record holds overwrites it when the caller holds the lease on the record
\* (the number having been imported and leased again since the earlier
\* finalize); called without the lease, as a second finalize right after the
\* first is, it answers NotFoundOrNotOwned and the record keeps the
\* disposition it had.
C18_OverwriteOnlyUnderLease ==
  [][Answered("finalize") =>
       \A i \in DOMAIN store : \A b \in FinalizeBodies :
         (/\ b[1] # "" /\ b[2] # ""
          /\ store[i].disposition \notin {Null, b[2]}
          /\ Finalize(resp'.by, i, b[1], b[2], b[3], b[4])) =>
           IF store[i].currentlyDialingBy = resp'.by
             THEN resp'.code = 200 /\ store'[i].disposition = b[2]
             ELSE resp'.code = 404 /\ store'[i].disposition = store[i].disposition]_vars

C18_Witness ==
  /\ resp.op = "finalize"
  /\ resp.code = 200
  /\ resp.id \in DOMAIN store
  /\ store[resp.id].disposition = "Sale"
  /\ store[resp.id].comments = "c1"
  /\ store[resp.id].dialingStatus = "completed"

\* C19: in every reachable state at most one record exists for each
\* (organizationId, phoneNumber) pair, whether a number is imported again or
\* two imports of the same new number run at once, both having looked the
\* number up before either created it.
C19_UniquePerTenant ==
  \A i, j \in DOMAIN store :
    (/\ store[i].organizationId = store[j].organizationId
     /\ store[i].phoneNumber = store[j].phoneNumber) => i = j

C19_Witness ==
  /\ resp.op = "upload"
  /\ resp.results.errors = 1
  /\ \E i \in DOMAIN store : store[i].phoneNumber = "p1"

\* C20: the step in which an import writes a phone number without error,
\* creating its record or resetting the existing one, leaves the tenant with
\* a record for that number that has dialingStatus pending, attempts 0,
\* currentlyDialingBy unset and assignedTo the agent named in the import.
C20_ImportedShape ==
  [][\A k \in DOMAIN uploads :
       (/\ uploads[k].pc = "write"
        /\ uploads'[k] # uploads[k]
        /\ \/ uploads[k].existing
           \/ SameNumber(store, Head(uploads[k].todo), OrgOf(uploads[k].by)) = {}
        /\ UploadReset(k) \/ UploadSave(k)) =>
         \E i \in DOMAIN store' :
           /\ store'[i].phoneNumber = Head(uploads[k].todo)
           /\ store'[i].organizationId = UserDocs[uploads[k].by].organizationId
           /\ store'[i].dialingStatus = "pending"
           /\ store'[i].attempts = 0
           /\ store'[i].currentlyDialingBy = Null
           /\ store'[i].assignedTo = uploads[k].to]_vars

C20_Witness ==
  /\ resp.op = "upload"
  /\ resp.results.duplicates = 1
  /\ \E i \in openCall :
       /\ store[i].dialingStatus = "pending"
       /\ store[i].attempts = 0
       /\ store[i].currentlyDialingBy = Null
       /\ store[i].assignedTo = "B"
       /\ store[i].uploadedBy = "A"

\* C21: a release, finalize or /disposition call whose DialList update
\* matched no record never answers success: whenever one of them answers
\* success, it names the record its update matched and wrote.
C21_NoSuccessWithoutMatch ==
  [][(/\ resp' # resp
      /\ resp'.op \in {"release", "finalize", "disposition"}
      /\ resp'.code = 200) =>
       /\ resp'.id \in DOMAIN store
       /\ resp'.op \in {"release", "finalize"} =>
            store[resp'.id].currentlyDialingBy = resp'.by
       /\ resp'.op = "disposition" => store[resp'.id].assignedTo = resp'.by]_vars

C23_CompletedIsTerminal ==
  /\ [](\A i \in DOMAIN store :
          store[i].dialingStatus = "completed" => store[i].currentlyDialingBy = Null)
  /\ [][(resp' # resp /\ resp'.op \in {"leaseNext", "release", "finalize"}) =>
          \A i \in DOMAIN store :
            store[i].dialingStatus = "completed" =>
              /\ store'[i].dialingStatus = "completed"
              /\ store'[i].currentlyDialingBy = Null
              /\ ~(resp'.code = 200 /\ resp'.id = i)]_vars

C23_Witness ==
  /\ resp.op \in {"release", "finalize"}
  /\ resp.code = 404
  /\ resp.id \in DOMAIN store
  /\ store[resp.id].dialingStatus = "completed"
  /\ store[resp.id].assignedTo = resp.by
  /\ store[resp.id].attempts = 1

\* C24: with no import, the assigned agent calling leaseNext again and again
\* and every lease given up in the end, the pool reaches a state from which
\* on every record is completed or unlocked with attempts = 3, and in such a
\* state every leaseNext call answers NoEligibleRecord and changes nothing.
C24_Progress ==
  /\ <>[](\A i \in DOMAIN store :
            \/ store[i].dialingStatus = "completed"
            \/ store[i].currentlyDialingBy = Null /\ store[i].attempts = 3)
  /\ [][(/\ \A i \in DOMAIN store :
              \/ store[i].dialingStatus = "completed"
              \/ store[i].currentlyDialingBy = Null /\ store[i].attempts = 3
          /\ Answered("leaseNext")
          /\ LeaseNext(resp'.by)) =>
           (resp'.code = 204 /\ store' = store)]_vars

C24_Witness ==
  /\ resp.op = "leaseNext"
  /\ resp.code = 204
  /\ \E i, j \in DOMAIN store :
       /\ store[i].dialingStatus = "completed"
       /\ store[i].completedAt # NoDate
       /\ store[j].dialingStatus = "pending"
       /\ store[j].currentlyDialingBy = Null
       /\ store[j].attempts = 3
       /\ store[j].lastDialedAt # NoDate

\* C25: a statsByAgent call answers exactly the six statuses, each with the
\* number of records of the caller's tenant assigned to the caller that have
\* that status in the state it reads (0 when there is none), so the six
\* counts add up to the number of the caller's records, and it changes no
\* record.
C25_StatsCountPerStatus ==
  [][Answered("stats") =>
       LET Mine == {i \in DOMAIN store :
                      /\ store[i].assignedTo = resp'.by
                      /\ store[i].organizationId = UserDocs[resp'.by].organizationId}
           Having(st) == {i \in Mine : store[i].dialingStatus = st}
           r == resp'.results
       IN /\ DOMAIN r = {"pending", "dialing", "completed", "failed", "busy", "no_answer"}
          /\ \A st \in DOMAIN r : r[st] = Cardinality(Having(st))
          /\ r.pending + r.dialing + r.completed + r.failed + r.busy + r.no_answer
               = Cardinality(Mine)
          /\ store' = store]_vars

C25_Witness ==
  /\ resp.op = "stats"
  /\ resp.by = "A"
  /\ resp.results.dialing = 1
  /\ resp.results.completed = 1
  /\ resp.results.pending = 0

\* C26: an operation run for a user of one tenant changes no record of
\* another tenant, creates records of its own tenant only, and returns only
\* records of its own tenant; and what leaseNext, stats, my-numbers,
\* /disposition and import select for a user is the same with every other
\* tenant's record taken out of the collection.
C26_TenantIsolation ==
  /\ [](\A u \in TenantActors :
          LET org == UserDocs[u].organizationId
              own == SelectSeq(store, LAMBDA d : d.organizationId = org)
              Phones(s, S) == {s[i].phoneNumber : i \in S}
          IN /\ \A i \in Eligible(store, u) : store[i].organizationId = org
             /\ Phones(store, Eligible(store, u)) = Phones(own, Eligible(own, u))
             /\ Phones(store, MyNumbersMatch(store, u))
                  = Phones(own, MyNumbersMatch(own, u))
             /\ Phones(store, DispositionMatch(store, u, "p1"))
                  = Phones(own, DispositionMatch(own, u, "p1"))
             /\ Phones(store, SameNumber(store, "p1", org))
                  = Phones(own, SameNumber(own, "p1", org))
             /\ FormattedStats(store, u) = FormattedStats(own, u)
             /\ \A i \in DOMAIN store :
                  OwnedBy(store, i, u) => store[i].organizationId = org)
  /\ [][(resp' # resp \/ uploads' # uploads) =>
        LET k == CHOOSE k \in DOMAIN uploads : uploads'[k] # uploads[k]
            by == IF resp' # resp THEN resp'.by
                  ELSE IF uploads[k].by # Null THEN uploads[k].by ELSE uploads'[k].by
            org == UserDocs[by].organizationId
        IN /\ \A i \in DOMAIN store :
                store[i].organizationId # org => store'[i] = store[i]
           /\ \A i \in DOMAIN store' :
                i \notin DOMAIN store => store'[i].organizationId = org
           /\ (/\ resp' # resp
               /\ resp'.op \in {"leaseNext", "release", "finalize", "disposition"}
               /\ resp'.code = 200
               /\ resp'.id # 0) => store'[resp'.id].organizationId = org
           /\ (resp' # resp /\ resp'.op = "myNumbers") =>
                \A a \in DOMAIN resp'.results :
                  store[resp'.results[a]].organizationId = org]_vars

C26_Witness ==
  /\ resp.op = "leaseNext"
  /\ resp.code = 204
  /\ resp.by = "A"
  /\ \E i \in DOMAIN store :
       /\ store[i].organizationId = "o2"
       /\ store[i].assignedTo = "A"
       /\ store[i].dialingStatus = "pending"
       /\ store[i].currentlyDialingBy = Null
  /\ \E j \in DOMAIN store :
       /\ store[j].organizationId = "o1"
       /\ store[j].currentlyDialingBy = "A"

\* C27: every step that turns a record's dialingStatus into completed starts
\* from a state in which the record is dialing and leased, and every
\* completed record has attempts >= 1.
C27_CompletedOnlyFromDialing ==
  /\ [][\A i \in DOMAIN store :
          (store[i].dialingStatus # "completed"
             /\ store'[i].dialingStatus = "completed") =>
            /\ store[i].dialingStatus = "dialing"
            /\ store[i].currentlyDialingBy # Null]_vars
  /\ [](\A i \in DOMAIN store :
          store[i].dialingStatus = "completed" => store[i].attempts >= 1)

\* C28: a successful release changes only dialingStatus and
\* currentlyDialingBy of the released record: attempts, disposition, notes,
\* comments, completedAt, assignedTo and every other field stay as they
\* were, and every other record is left unchanged.
C28_ReleaseFrame ==
  [][(Answered("release") /\ resp'.code = 200) =>
       /\ resp'.id \in DOMAIN store
       /\ store' = [store EXCEPT ![resp'.id] =
                      [@ EXCEPT !.dialingStatus = "pending",
                                !.currentlyDialingBy = Null]]]_vars

C28_Witness ==
  /\ resp.op = "release"
  /\ resp.code = 200
  /\ store[resp.id].dialingStatus = "pending"
  /\ store[resp.id].currentlyDialingBy = Null
  /\ store[resp.id].attempts >= 1
  /\ store[resp.id].disposition # Null
  /\ store[resp.id].completedAt # NoDate

\* C29: a leaseNext call changes at most one record, and on that record only
\* dialingStatus, currentlyDialingBy, lastDialedAt and attempts; a call that
\* returns NoEligibleRecord (204) changes nothing.
C29_LeaseFrame ==
  [][Answered("leaseNext") =>
       /\ DOMAIN store' = DOMAIN store
       /\ resp'.code = 204 => store' = store
       /\ \A i \in DOMAIN store :
            IF resp'.code = 200 /\ i = resp'.id
              THEN [store'[i] EXCEPT
                      !.dialingStatus = store[i].dialingStatus,
                      !.currentlyDialingBy = store[i].currentlyDialingBy,
                      !.lastDialedAt = store[i].lastDialedAt,
                      !.attempts = store[i].attempts] = store[i]
              ELSE store'[i] = store[i]]_vars

C29_Witness ==
  /\ resp.op = "leaseNext"
  /\ resp.code = 200
  /\ store[resp.id].currentlyDialingBy = resp.by
  /\ \E j \in DOMAIN store :
       /\ j # resp.id
       /\ store[j].assignedTo = resp.by
       /\ store[j].organizationId = OrgOf(resp.by)
       /\ store[j].dialingStatus \in RetryStatuses
       /\ store[j].currentlyDialingBy = Null
       /\ store[j].attempts < MAX_ATTEMPTS

\* C30: the step in which an import meets a number that already exists in
\* the tenant resets the record's calling status (dialingStatus pending) and
\* leaves the disposition, notes, comments and completedAt of every record
\* exactly as they were.
C30_ReimportKeepsOutcome ==
  [][uploads' # uploads =>
       \A k \in DOMAIN uploads :
         (/\ uploads[k].pc = "write"
          /\ uploads[k].existing
          /\ uploads'[k] # uploads[k]) =>
           /\ DOMAIN store' = DOMAIN store
           /\ \A i \in DOMAIN store :
                /\ store'[i].disposition = store[i].disposition
                /\ store'[i].notes = store[i].notes
                /\ store'[i].comments = store[i].comments
                /\ store'[i].completedAt = store[i].completedAt
                /\ (/\ store[i].phoneNumber = Head(uploads[k].todo)
                    /\ store[i].organizationId =
                         UserDocs[uploads[k].by].organizationId) =>
                     store'[i].dialingStatus = "pending"]_vars

C30_Witness ==
  /\ resp.op = "upload"
  /\ resp.results.duplicates = 1
  /\ \E i \in DOMAIN store :
       /\ store[i].dialingStatus = "pending"
       /\ store[i].attempts = 0
       /\ store[i].lastDialedAt = NoDate
       /\ store[i].disposition # Null
       /\ store[i].notes # Null
       /\ store[i].completedAt # NoDate

\* C31: every record returned by GET /my-numbers can be dialed: in the state
\* of the call it is assigned to the caller in the caller's tenant, has a
\* retryable status, is unlocked and has fewer than MAX_ATTEMPTS attempts, so
\* a leaseNext by that agent could return it.
C31_ListedIsDialable ==
  [][Answered("myNumbers") =>
       \A a \in DOMAIN resp'.results :
         LET d == store[resp'.results[a]]
         IN /\ d.assignedTo = resp'.by
            /\ d.organizationId = UserDocs[resp'.by].organizationId
            /\ d.dialingStatus \in {"pending", "failed", "no_answer", "busy"}
            /\ d.currentlyDialingBy = Null
            /\ d.attempts < 3]_vars

\* C32: in every reachable state a record whose currentlyDialingBy is set has
\* currentlyDialingBy equal to its assignedTo: only the assigned agent holds
\* the lease, also after a re-import has assigned the record to another agent.
C32_HolderIsAssignee ==
  \A i \in DOMAIN store :
    store[i].currentlyDialingBy # Null =>
      store[i].currentlyDialingBy = store[i].assignedTo

C32_Witness ==
  \E i \in DOMAIN store :
    /\ store[i].currentlyDialingBy = "B"
    /\ store[i].assignedTo = "B"
    /\ store[i].uploadedBy = "A"
    /\ store[i].attempts = 1
    /\ store[i].completedAt # NoDate

\* C33: starting from imported records, dialingStatus of every record is
\* always one of pending, dialing or completed: no operation sets failed,
\* busy or no_answer, whatever status and disposition a request carries.
C33_ThreeStatusesOnly ==
  \A i \in DOMAIN store :
    store[i].dialingStatus \in {"pending", "dialing", "completed"}

C33_Witness ==
  /\ resp.op = "finalize"
  /\ resp.code = 200
  /\ store[resp.id].disposition = "No Answer"
  /\ store[resp.id].dialingStatus = "completed"
  /\ store[resp.id].attempts = MAX_ATTEMPTS

\* C34: a lease does not expire and is not recovered by anyone else: a
\* record held by an agent stays dialing and held by that agent in every
\* step except a successful release, finalize or /disposition by the holder
\* on that record and a re-import of its number in its tenant; no call by
\* another agent and no passage of time frees it.
C34_LeaseEndsOnlyByHolderOrImport ==
  [][store' # store =>
       \A i \in DOMAIN store :
         (/\ store[i].currentlyDialingBy # Null
          /\ \/ store'[i].currentlyDialingBy # store[i].currentlyDialingBy
             \/ store'[i].dialingStatus # "dialing") =>
           \/ /\ resp' # resp
              /\ resp'.op \in {"release", "finalize", "disposition"}
              /\ resp'.code = 200
              /\ resp'.id = i
              /\ resp'.by = store[i].currentlyDialingBy
           \/ \E k \in DOMAIN uploads :
                /\ uploads[k].pc = "write"
                /\ uploads[k].existing
                /\ uploads'[k] # uploads[k]
                /\ Head(uploads[k].todo) = store[i].phoneNumber
                /\ UserDocs[uploads[k].by].organizationId =
                     store[i].organizationId]_vars

C34_Witness ==
  /\ resp.by = "B"
  /\ resp.op \in {"release", "finalize"}
  /\ resp.code = 404
  /\ resp.id \in DOMAIN store
  /\ store[resp.id].currentlyDialingBy = "A"
  /\ store[resp.id].dialingStatus = "dialing"
  /\ store[resp.id].lastDialedAt < now

\* C35: with no re-import, each record is returned by leaseNext at most 3
\* times over an execution, so the number of successful leaseNext calls
\* never exceeds 3 times the number of records.
C35_AtMostThreeLeases ==
  /\ \A i \in DOMAIN timesLeased : timesLeased[i] <= 3
  /\ timesLeased[1] + timesLeased[2] <= 3 * Len(store)

C35_Witness ==
  /\ resp.op = "leaseNext"
  /\ resp.code = 204
  /\ \A i \in DOMAIN store :
       /\ store[i].assignedTo = resp.by
       /\ store[i].dialingStatus = "pending"
       /\ timesLeased[i] = 3

\* C36: the step in which an import meets a number whose record is held
\* drops the lease (record pending, attempts 0, unlocked); and while a
\* record whose lease was dropped this way has not been leased again, a
\* release or a well-formed finalize of it, the former holder's included,
\* answers NotFoundOrNotOwned (404) and leaves every record unchanged.
C36_ImportDropsLease ==
  /\ [][uploads' # uploads =>
          \A k \in DOMAIN uploads : \A i \in DOMAIN store :
            (/\ uploads[k].pc = "write"
             /\ uploads[k].existing
             /\ uploads'[k] # uploads[k]
             /\ store[i].phoneNumber = Head(uploads[k].todo)
             /\ store[i].organizationId = UserDocs[uploads[k].by].organizationId
             /\ store[i].currentlyDialingBy # Null) =>
              /\ store'[i].dialingStatus = "pending"
              /\ store'[i].attempts = 0
              /\ store'[i].currentlyDialingBy = Null]_vars
  /\ [][resp'.op \in {"release", "finalize"} =>
          \A i \in openCall :
            (/\ store[i].currentlyDialingBy = Null
             /\ \/ Release(resp'.by, i)
                \/ \E b \in FinalizeBodies :
                     b[1] # "" /\ Finalize(resp'.by, i, b[1], b[2], b[3], b[4])) =>
              (resp'.code = 404 /\ store' = store)]_vars

C36_Witness ==
  /\ resp.op \in {"release", "finalize"}
  /\ resp.by = "A"
  /\ resp.code = 404
  /\ resp.id \in openCall
  /\ store[resp.id].organizationId = "o1"
  /\ store[resp.id].dialingStatus = "pending"
  /\ store[resp.id].attempts = 0
  /\ store[resp.id].currentlyDialingBy = Null

\* C37: a finalize or release request takes effect only on the lease under
\* which it was sent: whenever one of them answers success for a record, a
\* request of that kind by that agent sent under the record's current lease
\* exists, so a request of an earlier lease never completes or frees a later
\* lease of the record by the same agent.
C37_RequestBoundToItsLease ==
  [][(/\ resp' # resp
      /\ resp'.op \in {"release", "finalize"}
      /\ resp'.code = 200) =>
       \E m \in sent :
         /\ m.by = resp'.by
         /\ m.op = resp'.op
         /\ m.id = resp'.id
         /\ m.lease = timesLeased[resp'.id]]_vars

\* C38: a finalize that answers success writes disposition, notes and
\* comments only for the values supplied non-empty: for each of the three
\* that is omitted or empty the record keeps the value it had (for instance
\* one preserved across a re-import), and the record becomes completed all
\* the same.
C38_EmptyFieldsKept ==
  [][(Answered("finalize") /\ resp'.code = 200) =>
       \A b \in FinalizeBodies :
         Finalize(resp'.by, resp'.id, b[1], b[2], b[3], b[4]) =>
           LET d == store[resp'.id]
               e == store'[resp'.id]
           IN /\ e.dialingStatus = "completed"
              /\ e.disposition = IF b[2] = "" THEN d.disposition ELSE b[2]
              /\ e.notes = IF b[3] = "" THEN d.notes ELSE b[3]
              /\ e.comments = IF b[4] = "" THEN d.comments ELSE b[4]]_vars

C38_Witness ==
  /\ resp.op = "finalize"
  /\ resp.code = 200
  /\ store[resp.id].dialingStatus = "completed"
  /\ store[resp.id].disposition = "Sale"
  /\ store[resp.id].notes = "n1"
  /\ store[resp.id].comments = "c1"
  /\ store[resp.id].attempts = 1
====
